---- MODULE Spec2Model ----
(***************************************************************************)
(* The Immix allocation substrate of rlox (src/src/immix): LineMap,        *)
(* Block, BumpBlock and BlockList, under the TestAllocator policy.         *)
(*                                                                         *)
(* Lines are numbered from 0 as in the source; a LineMap is a sequence of  *)
(* BOOLEAN, so line l is element l + 1. Addresses are natural numbers, 0   *)
(* is the null pointer. A panic ends the program: `status` becomes         *)
(* "aborted" and no operation is enabled afterwards.                       *)
(***************************************************************************)
EXTENDS Integers, Sequences, FiniteSets, TLC

VARIABLES
    blocks,           \* BlockList.blocks / the BumpBlock under test: Seq(BumpBlock);
                      \* MemSpec: the Blocks alive
    issued,           \* every ManagedPtr handed to the caller so far
    live,             \* BlockSpec: the issued pointers not given back since they were issued
    overflow_checks,  \* the build: TRUE = arithmetic overflow panics (debug), FALSE = wraps (release)
    status,           \* "running" | "aborted"
    last,             \* the last call: operation, argument, result
    pre_lines,        \* BlockSpec, LineSpec: the LineMap as the last call found it
    calls,            \* number of calls made so far
    pc,               \* position in test::alloc_dealloc_blocks
    ptrs,             \* the test's `ptrs` vector; BlockSpec: the pointers inner_alloc
                      \* has returned since the last inner_dealloc, in order
    test,             \* the test's parameters and what it remembers: loop count, request, blocks after round 1
    map               \* LineSpec: the LineMap under test

vars == <<blocks, issued, live, overflow_checks, status, last, pre_lines, calls, pc, ptrs, test,
          map>>

----------------------------------------------------------------------------
(* Policy: TestAllocator *)

BLOCK_SIZE_BYTES == 256

LINE_SIZE_BYTES == 64

LINES_PER_BLOCK == BLOCK_SIZE_BYTES \div LINE_SIZE_BYTES

(* Bounds of the model *)

\* the operating allocator has this many block-aligned regions to give out
NumSlots == 3

\* BlockList calls per run of Spec
MaxCalls == 4

\* BlockList calls per run of DeepSpec, and the largest request it makes
DeepCalls == 7

DeepRequest == 3

\* BumpBlock calls per run of BlockSpec
MaxBlockCalls == 7

\* requests are drawn from 1..MaxRequest
MaxRequest == 5

\* MemSpec: Block::new is called with sizes 0..MaxBlockSize, the operating
\* allocator owns the addresses 1..HeapBytes, and a run makes MaxMemCalls calls
MaxBlockSize == 9

HeapBytes == 16

MaxMemCalls == 3

\* LineSpec: the LineMap under test has this many lines
MapLen == 7

\* the test's loop count `0..10`; TestSpec runs the test for every count 1..TEST_ALLOCS
TEST_ALLOCS == 10

NULL == 0

NoPtr == [addr |-> NULL, size |-> 0]

ManagedPtr_new(inner, size) == [addr |-> inner, size |-> size]

Requests == 1 .. MaxRequest

Regions == {s * BLOCK_SIZE_BYTES : s \in 1 .. NumSlots}

----------------------------------------------------------------------------
(* LineMap (linemap.rs) *)

LineMap_new(size) == [i \in 1 .. size |-> FALSE]

is_used(m, line) == m[line + 1]

\* self.0.iter().skip(line).take_while(|x| x == val).count()
RECURSIVE take_while_count(_, _, _)
take_while_count(m, line, val) ==
    IF line >= Len(m) THEN 0
    ELSE IF m[line + 1] = val THEN 1 + take_while_count(m, line + 1, val)
    ELSE 0

\* find_next_used that counts one line too many
find_next_used_off_by_one(m, line) == line + take_while_count(m, line, FALSE) + 1

find_next_used(m, line) == line + take_while_count(m, line, FALSE)

\* find_next_unused without skip(line): the scan starts at line 0
find_next_unused_no_skip(m, line) == line + take_while_count(m, 0, TRUE)

find_next_unused(m, line) == line + take_while_count(m, line, TRUE)

entire_block_unused(m) == \A i \in 1 .. Len(m) : ~m[i]

entire_block_used(m) == \A i \in 1 .. Len(m) : m[i]

\* `end - start` on usize: TRUE when the subtraction overflows
sub_overflows(end, start) == end < start

\* the lines `iter().skip(start).take(end - start)` visits. When end < start and
\* the build wraps, end - start is 2^64 - (start - end), more than any map
\* holds, and take() visits every line from start on.
range_window(m, start, end) ==
    IF sub_overflows(end, start)
    THEN {l \in 0 .. Len(m) - 1 : l >= start}
    ELSE {l \in 0 .. Len(m) - 1 : l >= start /\ l < end}

\* `for line in start..end { self.0.set(line, val) }`, as far as the map reaches
write_range(m, start, end, val) ==
    [i \in 1 .. Len(m) |-> IF i - 1 >= start /\ i - 1 < end THEN val ELSE m[i]]

\* set_range without the assert!: the loop runs whatever the lines hold
set_range_no_assert(m, start, end, val, msg) ==
    IF sub_overflows(end, start) /\ overflow_checks
    THEN [panic |-> "attempt to subtract with overflow", map |-> m]
    ELSE IF end > start /\ end > Len(m)
    THEN [panic |-> "index out of bounds", map |-> write_range(m, start, end, val)]
    ELSE [panic |-> "", map |-> write_range(m, start, end, val)]

\* the common body of set_range_used (val = TRUE) and set_range_unused (val = FALSE)
set_range(m, start, end, val, msg) ==
    IF sub_overflows(end, start) /\ overflow_checks
    THEN [panic |-> "attempt to subtract with overflow", map |-> m]
    ELSE IF \E l \in range_window(m, start, end) : m[l + 1] = val
    THEN [panic |-> msg, map |-> m]
    ELSE IF end > start /\ end > Len(m)
    THEN [panic |-> "index out of bounds", map |-> write_range(m, start, end, val)]
    ELSE [panic |-> "", map |-> write_range(m, start, end, val)]

\* self.0.set(line, true)
set_used(m, line) == [m EXCEPT ![line + 1] = TRUE]

\* self.0.set(line, false)
set_unused(m, line) == [m EXCEPT ![line + 1] = FALSE]

len(m) == Len(m)

set_range_used(m, start, end) ==
    set_range(m, start, end, TRUE, "Set already used line as used!")

set_range_unused(m, start, end) ==
    set_range(m, start, end, FALSE, "Set already unused line as unused!")

----------------------------------------------------------------------------
(* Block (memory.rs) *)

RECURSIVE is_power_of_two(_)
is_power_of_two(n) ==
    IF n = 1 THEN TRUE
    ELSE IF n <= 0 \/ n % 2 = 1 THEN FALSE
    ELSE is_power_of_two(n \div 2)

\* alloc_block that calls std::alloc::alloc first and tests the size afterwards
alloc_block_late_check(size, os) ==
    IF ~is_power_of_two(size)
    THEN [err |-> "BadAlignment", asked |-> TRUE, block |-> [ptr |-> NULL, size |-> 0]]
    ELSE IF os # NULL THEN [err |-> "", asked |-> TRUE, block |-> [ptr |-> os, size |-> size]]
    ELSE [err |-> "OutOfMemory", asked |-> TRUE, block |-> [ptr |-> NULL, size |-> 0]]

\* internal::alloc_block; `os` is what std::alloc::alloc returns if it is called,
\* `asked` tells whether it was called
alloc_block(size, os) ==
    IF ~is_power_of_two(size)
    THEN [err |-> "BadAlignment", asked |-> FALSE, block |-> [ptr |-> NULL, size |-> 0]]
    ELSE IF os # NULL THEN [err |-> "", asked |-> TRUE, block |-> [ptr |-> os, size |-> size]]
    ELSE [err |-> "OutOfMemory", asked |-> TRUE, block |-> [ptr |-> NULL, size |-> 0]]

\* internal::dealloc_block, run by Drop: the region goes back to the operating allocator
dealloc_block(held, i) == [j \in 1 .. Len(held) - 1 |-> IF j < i THEN held[j] ELSE held[j + 1]]

Block_new(size, os) == alloc_block(size, os)

----------------------------------------------------------------------------
(* BumpBlock (bump_alloc.rs) *)

\* BumpBlock::new that goes on with whatever Block::new returned, error or not
BumpBlock_new_infallible(os) ==
    LET mem == Block_new(BLOCK_SIZE_BYTES, os) IN
    [err |-> "",
     asked |-> mem.asked,
     block |-> [cursor |-> 0,
                limit |-> LINES_PER_BLOCK,
                mem |-> mem.block,
                used_lines |-> LineMap_new(LINES_PER_BLOCK)]]

BumpBlock_new(os) ==
    LET mem == Block_new(BLOCK_SIZE_BYTES, os) IN
    [err |-> mem.err,
     asked |-> mem.asked,
     block |-> [cursor |-> 0,
                limit |-> LINES_PER_BLOCK,
                mem |-> mem.block,
                used_lines |-> LineMap_new(LINES_PER_BLOCK)]]

\* inner_dealloc that frees from the start of the block up to the pointer's end
inner_dealloc_from_start(b, ptr) ==
    LET r == set_range_unused(b.used_lines, 0, ptr.addr - b.mem.ptr + ptr.size) IN
    [panic |-> r.panic, block |-> [b EXCEPT !.used_lines = r.map]]

\* inner_dealloc that also moves the cursor back to the freed range
inner_dealloc_rewind(b, ptr) ==
    LET r == set_range_unused(b.used_lines, ptr.addr - b.mem.ptr, ptr.size) IN
    [panic |-> r.panic,
     block |-> [b EXCEPT !.used_lines = r.map, !.cursor = ptr.addr - b.mem.ptr]]

inner_dealloc(b, ptr) ==
    LET r == set_range_unused(b.used_lines, ptr.addr - b.mem.ptr, ptr.size) IN
    [panic |-> r.panic, block |-> [b EXCEPT !.used_lines = r.map]]

\* Option<(usize, usize)>: `some` tells Some from None
find_first_hole(b) ==
    IF entire_block_used(b.used_lines)
    THEN [panic |-> "", some |-> FALSE, hole_begin |-> 0, hole_end_exclusive |-> 0]
    ELSE LET hole_begin == find_next_unused(b.used_lines, 0) IN
         IF ~(hole_begin # Len(b.used_lines))
         THEN [panic |-> "The entire block is not used. There should be an unused line!",
               some |-> FALSE, hole_begin |-> 0, hole_end_exclusive |-> 0]
         ELSE [panic |-> "", some |-> TRUE, hole_begin |-> hole_begin,
               hole_end_exclusive |-> find_next_used(b.used_lines, hole_begin)]

\* bump with `num_lines_available > bytes` for `>=`: a request that exactly
\* fills the free run is refused
bump_strict(b, bytes) ==
    IF ~(b.cursor < b.limit)
    THEN [panic |-> "The cursor must be less than or equal to the limit",
          block |-> b, ptr |-> NoPtr]
    ELSE LET next_used == find_next_used(b.used_lines, b.cursor)
             r == set_range_used(b.used_lines, b.cursor, b.cursor + bytes)
         IN IF next_used - b.cursor > bytes /\ r.panic = ""
            THEN [panic |-> "",
                  block |-> [b EXCEPT !.used_lines = r.map, !.cursor = b.cursor + bytes],
                  ptr |-> ManagedPtr_new(b.mem.ptr + b.cursor, bytes)]
            ELSE [panic |-> "", block |-> b, ptr |-> NoPtr]

\* bump without `self.cursor += bytes`
bump_keep_cursor(b, bytes) ==
    IF ~(b.cursor < b.limit)
    THEN [panic |-> "The cursor must be less than or equal to the limit",
          block |-> b, ptr |-> NoPtr]
    ELSE LET next_used == find_next_used(b.used_lines, b.cursor)
             r == set_range_used(b.used_lines, b.cursor, b.cursor + bytes)
         IN IF next_used - b.cursor >= bytes
            THEN IF r.panic # ""
                 THEN [panic |-> r.panic, block |-> [b EXCEPT !.used_lines = r.map],
                       ptr |-> NoPtr]
                 ELSE [panic |-> "",
                       block |-> [b EXCEPT !.used_lines = r.map],
                       ptr |-> ManagedPtr_new(b.mem.ptr + b.cursor, bytes)]
            ELSE [panic |-> "", block |-> b, ptr |-> NoPtr]

\* bump that gives the hole up when the request does not fit: cursor = limit
bump_exhaust_on_fail(b, bytes) ==
    IF ~(b.cursor < b.limit)
    THEN [panic |-> "The cursor must be less than or equal to the limit",
          block |-> b, ptr |-> NoPtr]
    ELSE LET next_used == find_next_used(b.used_lines, b.cursor)
             r == set_range_used(b.used_lines, b.cursor, b.cursor + bytes)
         IN IF next_used - b.cursor >= bytes
            THEN IF r.panic # ""
                 THEN [panic |-> r.panic, block |-> [b EXCEPT !.used_lines = r.map],
                       ptr |-> NoPtr]
                 ELSE [panic |-> "",
                       block |-> [b EXCEPT !.used_lines = r.map, !.cursor = b.cursor + bytes],
                       ptr |-> ManagedPtr_new(b.mem.ptr + b.cursor, bytes)]
            ELSE [panic |-> "", block |-> [b EXCEPT !.cursor = b.limit], ptr |-> NoPtr]

\* the part of inner_alloc after the hole search (lines 77-103)
bump(b, bytes) ==
    IF ~(b.cursor < b.limit)
    THEN [panic |-> "The cursor must be less than or equal to the limit",
          block |-> b, ptr |-> NoPtr]
    ELSE LET next_used == find_next_used(b.used_lines, b.cursor)
             num_lines_available == next_used - b.cursor
             block_start == b.cursor
             block_end_exclusive == block_start + bytes
             r == set_range_used(b.used_lines, block_start, block_end_exclusive)
         IN IF num_lines_available >= bytes
            THEN IF r.panic # ""
                 THEN [panic |-> r.panic, block |-> [b EXCEPT !.used_lines = r.map],
                       ptr |-> NoPtr]
                 ELSE [panic |-> "",
                       block |-> [b EXCEPT !.used_lines = r.map, !.cursor = b.cursor + bytes],
                       ptr |-> ManagedPtr_new(b.mem.ptr + block_start, bytes)]
            ELSE [panic |-> "", block |-> b, ptr |-> NoPtr]

\* ptr = NoPtr and panic = "" is the return value None
inner_alloc(b, bytes) ==
    IF b.cursor = b.limit
    THEN LET hole == find_first_hole(b) IN
         IF hole.panic # "" THEN [panic |-> hole.panic, block |-> b, ptr |-> NoPtr]
         ELSE IF ~hole.some THEN [panic |-> "", block |-> b, ptr |-> NoPtr]
         ELSE bump([b EXCEPT !.cursor = hole.hole_begin,
                             !.limit = hole.hole_end_exclusive], bytes)
    ELSE bump(b, bytes)

\* get_block_state with the last return left out: a block that is not full is Free
get_block_state_no_recyclable(b) ==
    IF entire_block_used(b.used_lines) THEN "Unavailable" ELSE "Free"

\* BlockState: "Free" | "Recyclable" | "Unavailable"
get_block_state(b) ==
    IF entire_block_used(b.used_lines) THEN "Unavailable"
    ELSE IF entire_block_unused(b.used_lines) THEN "Free"
    ELSE "Recyclable"

\* contains without the upper bound: every address from the block's start on
contains_no_upper_bound(b, ptr) == ptr.addr >= b.mem.ptr

contains(b, ptr) ==
    LET block_start == b.mem.ptr
        block_end == block_start + b.mem.size
        ptr_addr == ptr.addr
    IN ptr_addr >= block_start /\ ptr_addr < block_end

----------------------------------------------------------------------------
(* BlockList (blocklist.rs) *)

BlockList_new == <<>>

\* the loop of alloc run from the last block to the first
RECURSIVE alloc_in_blocks_last_first(_, _, _)
alloc_in_blocks_last_first(bs, i, bytes) ==
    IF i > Len(bs)
    THEN [blocks |-> bs, panic |-> "", ptr |-> NoPtr, block |-> 0]
    ELSE LET rest == alloc_in_blocks_last_first(bs, i + 1, bytes)
             r == inner_alloc(bs[i], bytes)
         IN IF rest.panic # "" \/ rest.ptr # NoPtr
            THEN rest
            ELSE [blocks |-> [rest.blocks EXCEPT ![i] = r.block], panic |-> r.panic,
                  ptr |-> r.ptr,
                  block |-> IF r.panic # "" \/ r.ptr # NoPtr THEN i ELSE 0]

\* `for block in self.blocks.iter_mut()` of alloc, from block i on. `block` is
\* the index of the block that ended the loop (0: every block returned None).
RECURSIVE alloc_in_blocks(_, _, _)
alloc_in_blocks(bs, i, bytes) ==
    IF i > Len(bs)
    THEN [blocks |-> bs, panic |-> "", ptr |-> NoPtr, block |-> 0]
    ELSE LET r == inner_alloc(bs[i], bytes)
             bs2 == [bs EXCEPT ![i] = r.block]
         IN IF r.panic # "" \/ r.ptr # NoPtr
            THEN [blocks |-> bs2, panic |-> r.panic, ptr |-> r.ptr, block |-> i]
            ELSE alloc_in_blocks(bs2, i + 1, bytes)

\* BlockList::alloc; `os` is what the operating allocator returns if it is asked,
\* `asked` tells whether it was
BlockList_alloc(bs, bytes, os) ==
    LET scan == alloc_in_blocks(bs, 1, bytes) IN
    IF scan.panic # ""
    THEN [blocks |-> scan.blocks, result |-> "panic", err |-> scan.panic,
          ptr |-> NoPtr, block |-> scan.block, asked |-> FALSE]
    ELSE IF scan.ptr # NoPtr
    THEN [blocks |-> scan.blocks, result |-> "Ok", err |-> "",
          ptr |-> scan.ptr, block |-> scan.block, asked |-> FALSE]
    ELSE LET new == BumpBlock_new(os) IN
         IF new.err # ""
         THEN [blocks |-> scan.blocks, result |-> "Err", err |-> new.err,
               ptr |-> NoPtr, block |-> 0, asked |-> new.asked]
         ELSE LET r == inner_alloc(new.block, bytes)
                  pushed == Append(scan.blocks, r.block)
              IN IF r.panic # ""
                 THEN [blocks |-> pushed, result |-> "panic", err |-> r.panic,
                       ptr |-> NoPtr, block |-> Len(pushed), asked |-> new.asked]
                 ELSE IF r.ptr = NoPtr
                 THEN [blocks |-> pushed, result |-> "panic",
                       err |-> "Object too large to allocate",
                       ptr |-> NoPtr, block |-> Len(pushed), asked |-> new.asked]
                 ELSE [blocks |-> pushed, result |-> "Ok", err |-> "",
                       ptr |-> r.ptr, block |-> Len(pushed), asked |-> new.asked]

\* the loop of dealloc, taking a block out of the list once its last line is freed
RECURSIVE dealloc_in_blocks_drop_free(_, _, _)
dealloc_in_blocks_drop_free(bs, i, ptr) ==
    IF i > Len(bs)
    THEN [blocks |-> bs, result |-> "panic",
          err |-> "ManagedPtr is not owned by the BlockList!", block |-> 0]
    ELSE IF contains(bs[i], ptr)
    THEN LET r == inner_dealloc(bs[i], ptr) IN
         [blocks |-> IF r.panic = "" /\ entire_block_unused(r.block.used_lines)
                     THEN [j \in 1 .. Len(bs) - 1 |-> IF j < i THEN bs[j] ELSE bs[j + 1]]
                     ELSE [bs EXCEPT ![i] = r.block],
          result |-> IF r.panic # "" THEN "panic" ELSE "unit",
          err |-> r.panic, block |-> i]
    ELSE dealloc_in_blocks_drop_free(bs, i + 1, ptr)

\* `for block in self.blocks.iter_mut()` of dealloc, from block i on
RECURSIVE dealloc_in_blocks(_, _, _)
dealloc_in_blocks(bs, i, ptr) ==
    IF i > Len(bs)
    THEN [blocks |-> bs, result |-> "panic",
          err |-> "ManagedPtr is not owned by the BlockList!", block |-> 0]
    ELSE IF contains(bs[i], ptr)
    THEN LET r == inner_dealloc(bs[i], ptr) IN
         [blocks |-> [bs EXCEPT ![i] = r.block],
          result |-> IF r.panic # "" THEN "panic" ELSE "unit",
          err |-> r.panic, block |-> i]
    ELSE dealloc_in_blocks(bs, i + 1, ptr)

\* dealloc that returns when no block contains the pointer, instead of panicking
BlockList_dealloc_ignore(bs, ptr) ==
    LET r == dealloc_in_blocks(bs, 1, ptr) IN
    IF r.block = 0 THEN [blocks |-> bs, result |-> "unit", err |-> "", block |-> 0]
    ELSE r

BlockList_dealloc(bs, ptr) == dealloc_in_blocks(bs, 1, ptr)

----------------------------------------------------------------------------
(* The environment *)

\* the regions the operating allocator has not given out
FreeRegions(bs) == Regions \ {bs[i].mem.ptr : i \in 1 .. Len(bs)}

\* what std::alloc::alloc may return: a free aligned region, or null
OsAnswers(bs) == FreeRegions(bs) \cup {NULL}

\* pointers into memory no block of the list owns: the first byte of every
\* region the list does not hold
ForeignPtrs(bs) == {ManagedPtr_new(a, 1) : a \in FreeRegions(bs)}

\* `block` is the index of the block the call acted on (0: none); `asked` tells
\* whether the call asked the operating allocator for a region, `os` what it got
NoCall == [op |-> "none", block |-> 0, bytes |-> 0, ptr |-> NoPtr, result |-> "", err |-> "",
           asked |-> FALSE, os |-> NULL]

NoTest == [count |-> 0, bytes |-> 0, blocks1 |-> 0]

----------------------------------------------------------------------------
(* BlockList: BlockList::new, then alloc / dealloc *)

Init ==
    /\ blocks = BlockList_new
    /\ issued = {}
    /\ live = {}
    /\ overflow_checks \in BOOLEAN
    /\ status = "running"
    /\ last = NoCall
    /\ pre_lines = <<>>
    /\ calls = 0
    /\ pc = "none"
    /\ ptrs = <<>>
    /\ test = NoTest
    /\ map = <<>>

\* the state change of one BlockList::alloc(bytes) call whose outcome is r
DoAlloc(r, bytes, os) ==
    /\ blocks' = r.blocks
    /\ issued' = IF r.ptr # NoPtr THEN issued \cup {r.ptr} ELSE issued
    /\ last' = [op |-> "alloc", block |-> r.block, bytes |-> bytes, ptr |-> r.ptr,
                result |-> r.result, err |-> r.err,
                asked |-> r.asked, os |-> IF r.asked THEN os ELSE NULL]
    /\ calls' = calls + 1
    /\ UNCHANGED <<live, pre_lines>>

\* the state change of one BlockList::dealloc(ptr) call whose outcome is r
DoDealloc(r, ptr) ==
    /\ blocks' = r.blocks
    /\ last' = [op |-> "dealloc", block |-> r.block, bytes |-> 0, ptr |-> ptr,
                result |-> r.result, err |-> r.err, asked |-> FALSE, os |-> NULL]
    /\ calls' = calls + 1
    /\ UNCHANGED <<issued, live, pre_lines>>

Alloc ==
    \E bytes \in Requests, os \in OsAnswers(blocks) :
        \E r \in {BlockList_alloc(blocks, bytes, os)} :
            /\ status = "running"
            /\ calls < MaxCalls
            /\ DoAlloc(r, bytes, os)
            /\ status' = IF r.result = "panic" THEN "aborted" ELSE "running"
            /\ UNCHANGED <<map, overflow_checks, pc, ptrs, test>>

Dealloc ==
    \E ptr \in issued \cup ForeignPtrs(blocks) :
        \E r \in {BlockList_dealloc(blocks, ptr)} :
            /\ status = "running"
            /\ calls < MaxCalls
            /\ DoDealloc(r, ptr)
            /\ status' = IF r.result = "panic" THEN "aborted" ELSE "running"
            /\ UNCHANGED <<map, overflow_checks, pc, ptrs, test>>

Next == Alloc \/ Dealloc

Spec == Init /\ [][Next]_vars

----------------------------------------------------------------------------
(* BlockList, longer runs: small requests, pointers of the list only, and an *)
(* operating allocator that gives a region whenever it has one               *)

DeepAlloc ==
    \E bytes \in 1 .. DeepRequest :
        \E os \in IF FreeRegions(blocks) = {} THEN {NULL} ELSE FreeRegions(blocks) :
            \E r \in {BlockList_alloc(blocks, bytes, os)} :
                /\ status = "running"
                /\ calls < DeepCalls
                /\ DoAlloc(r, bytes, os)
                /\ status' = IF r.result = "panic" THEN "aborted" ELSE "running"
                /\ UNCHANGED <<map, overflow_checks, pc, ptrs, test>>

DeepDealloc ==
    \E ptr \in issued :
        \E r \in {BlockList_dealloc(blocks, ptr)} :
            /\ status = "running"
            /\ calls < DeepCalls
            /\ DoDealloc(r, ptr)
            /\ status' = IF r.result = "panic" THEN "aborted" ELSE "running"
            /\ UNCHANGED <<map, overflow_checks, pc, ptrs, test>>

DeepNext == DeepAlloc \/ DeepDealloc

DeepSpec == Init /\ [][DeepNext]_vars

----------------------------------------------------------------------------
(* test::alloc_dealloc_blocks (blocklist.rs:55-79), for every loop count in  *)
(* 1..TEST_ALLOCS and for a request of one line or of LINE_SIZE_BYTES (the   *)
(* value the test passes). The test's assert! lines are not steps: they are  *)
(* the properties checked of it.                                             *)

TestInit ==
    /\ blocks = BlockList_new
    /\ issued = {}
    /\ live = {}
    /\ overflow_checks \in BOOLEAN
    /\ status = "running"
    /\ last = NoCall
    /\ pre_lines = <<>>
    /\ calls = 0
    /\ pc = "alloc1"
    /\ ptrs = <<>>
    /\ \E count \in 1 .. TEST_ALLOCS, bytes \in {1, LINE_SIZE_BYTES} :
           test = [count |-> count, bytes |-> bytes, blocks1 |-> 0]
    /\ map = <<>>

\* ptrs.push(blist.alloc(64).expect("Could not allocate block!")), the call's
\* outcome being r; `next` is where the test goes when this push ends the loop
TestPush(r, os, here, next) ==
    /\ status = "running"
    /\ pc = here
    /\ Len(ptrs) < test.count
    /\ DoAlloc(r, test.bytes, os)
    /\ status' = IF r.result = "Ok" THEN "running" ELSE "aborted"
    /\ ptrs' = IF r.result = "Ok" THEN Append(ptrs, r.ptr) ELSE ptrs
    /\ pc' = IF r.result = "Ok" /\ Len(ptrs) + 1 = test.count THEN next ELSE here
    /\ test' = IF r.result = "Ok" /\ Len(ptrs) + 1 = test.count /\ here = "alloc1"
               THEN [test EXCEPT !.blocks1 = Len(r.blocks)] ELSE test
    /\ UNCHANGED <<map, overflow_checks>>

\* lines 59-61
TestAlloc1 ==
    \E os \in OsAnswers(blocks) :
        \E r \in {BlockList_alloc(blocks, test.bytes, os)} :
            TestPush(r, os, "alloc1", "dealloc")

\* lines 69-71, and `let mut ptrs = Vec::new()` once the loop ends
TestDealloc ==
    /\ pc = "dealloc"
    /\ status = "running"
    /\ \E r \in {BlockList_dealloc(blocks, Head(ptrs))} :
        /\ DoDealloc(r, Head(ptrs))
        /\ status' = IF r.result = "panic" THEN "aborted" ELSE "running"
        /\ ptrs' = Tail(ptrs)
        /\ pc' = IF Tail(ptrs) = <<>> THEN "alloc2" ELSE "dealloc"
        /\ UNCHANGED <<map, overflow_checks, test>>

\* lines 74-76
TestAlloc2 ==
    \E os \in OsAnswers(blocks) :
        \E r \in {BlockList_alloc(blocks, test.bytes, os)} :
            TestPush(r, os, "alloc2", "done")

TestNext == TestAlloc1 \/ TestDealloc \/ TestAlloc2

TestSpec == TestInit /\ [][TestNext]_vars

----------------------------------------------------------------------------
(* Single BumpBlock: BumpBlock::new, then inner_alloc / inner_dealloc *)

BlockInit ==
    /\ \E os \in Regions : blocks = <<BumpBlock_new(os).block>>
    /\ issued = {}
    /\ live = {}
    /\ overflow_checks \in BOOLEAN
    /\ status = "running"
    /\ last = NoCall
    /\ pre_lines = <<>>
    /\ calls = 0
    /\ pc = "none"
    /\ ptrs = <<>>
    /\ test = NoTest
    /\ map = <<>>

InnerAlloc ==
    \E bytes \in Requests :
        \E r \in {inner_alloc(blocks[1], bytes)} :
        /\ status = "running"
        /\ calls < MaxBlockCalls
        /\ blocks' = <<r.block>>
        /\ pre_lines' = blocks[1].used_lines
        /\ issued' = IF r.ptr # NoPtr THEN issued \cup {r.ptr} ELSE issued
        /\ live' = IF r.ptr # NoPtr THEN live \cup {r.ptr} ELSE live
        /\ status' = IF r.panic # "" THEN "aborted" ELSE "running"
        /\ last' = [op |-> "inner_alloc", block |-> 1, bytes |-> bytes, ptr |-> r.ptr,
                    result |-> IF r.panic # "" THEN "panic"
                               ELSE IF r.ptr # NoPtr THEN "Some" ELSE "None",
                    err |-> r.panic]
        /\ ptrs' = IF r.ptr # NoPtr THEN Append(ptrs, r.ptr) ELSE ptrs
        /\ calls' = calls + 1
        /\ UNCHANGED <<map, overflow_checks, pc, test>>

InnerDealloc ==
    \E ptr \in issued :
        \E r \in {inner_dealloc(blocks[1], ptr)} :
        /\ status = "running"
        /\ calls < MaxBlockCalls
        /\ blocks' = <<r.block>>
        /\ live' = live \ {ptr}
        /\ status' = IF r.panic # "" THEN "aborted" ELSE "running"
        /\ pre_lines' = blocks[1].used_lines
        /\ last' = [op |-> "inner_dealloc", block |-> 1, bytes |-> 0, ptr |-> ptr,
                    result |-> IF r.panic # "" THEN "panic" ELSE "unit",
                    err |-> r.panic]
        /\ ptrs' = <<>>
        /\ calls' = calls + 1
        /\ UNCHANGED <<issued, overflow_checks, pc, test, map>>

BlockNext == InnerAlloc \/ InnerDealloc

BlockSpec == BlockInit /\ [][BlockNext]_vars

----------------------------------------------------------------------------
(* Single BumpBlock whose caller gives every pointer back at most once:      *)
(* inner_dealloc is called on pointers that are live only                    *)

LiveDealloc ==
    \E ptr \in live :
        \E r \in {inner_dealloc(blocks[1], ptr)} :
        /\ status = "running"
        /\ calls < MaxBlockCalls
        /\ blocks' = <<r.block>>
        /\ live' = live \ {ptr}
        /\ status' = IF r.panic # "" THEN "aborted" ELSE "running"
        /\ pre_lines' = blocks[1].used_lines
        /\ last' = [op |-> "inner_dealloc", block |-> 1, bytes |-> 0, ptr |-> ptr,
                    result |-> IF r.panic # "" THEN "panic" ELSE "unit",
                    err |-> r.panic]
        /\ ptrs' = <<>>
        /\ calls' = calls + 1
        /\ UNCHANGED <<issued, overflow_checks, pc, test, map>>

LiveNext == InnerAlloc \/ LiveDealloc

LiveSpec == BlockInit /\ [][LiveNext]_vars

----------------------------------------------------------------------------
(* Block alone (memory.rs): Block::new(size) and drop, as test::alloc_dealloc *)
(* uses them, for every size in 0..MaxBlockSize                               *)

\* the bytes of the Blocks alive
HeldBytes(held) ==
    UNION {held[i].ptr .. held[i].ptr + held[i].size - 1 : i \in 1 .. Len(held)}

\* what alloc(Layout::from_size_align_unchecked(size, size)) may return: null, or
\* a region of `size` bytes aligned to `size` that no Block alive holds
MemAnswers(held, size) ==
    {NULL} \cup {a \in 1 .. HeapBytes :
                    /\ size > 0
                    /\ a % size = 0
                    /\ a + size - 1 <= HeapBytes
                    /\ (a .. a + size - 1) \cap HeldBytes(held) = {}}

MemInit ==
    /\ blocks = <<>>
    /\ issued = {}
    /\ live = {}
    /\ overflow_checks \in BOOLEAN
    /\ status = "running"
    /\ last = [op |-> "none", size |-> 0, asked |-> FALSE, os |-> NULL, err |-> "",
               block |-> [ptr |-> NULL, size |-> 0]]
    /\ pre_lines = <<>>
    /\ calls = 0
    /\ pc = "none"
    /\ ptrs = <<>>
    /\ test = NoTest
    /\ map = <<>>

\* let block = Block::new(size)?
MemNew ==
    /\ calls < MaxMemCalls
    /\ \E size \in 0 .. MaxBlockSize :
       \E os \in MemAnswers(blocks, size) :
       \E r \in {Block_new(size, os)} :
          /\ blocks' = IF r.err = "" THEN Append(blocks, r.block) ELSE blocks
          /\ last' = [op |-> "Block_new", size |-> size, asked |-> r.asked,
                      os |-> IF r.asked THEN os ELSE NULL, err |-> r.err, block |-> r.block]
          /\ calls' = calls + 1
          /\ UNCHANGED <<issued, live, overflow_checks, status, pre_lines, pc, ptrs, test, map>>

\* drop(block)
MemDrop ==
    /\ calls < MaxMemCalls
    /\ \E i \in 1 .. Len(blocks) :
          /\ blocks' = dealloc_block(blocks, i)
          /\ last' = [op |-> "drop", size |-> blocks[i].size, asked |-> FALSE, os |-> NULL,
                      err |-> "", block |-> blocks[i]]
          /\ calls' = calls + 1
          /\ UNCHANGED <<issued, live, overflow_checks, status, pre_lines, pc, ptrs, test, map>>

MemNext == MemNew \/ MemDrop

MemSpec == MemInit /\ [][MemNext]_vars

----------------------------------------------------------------------------
(* LineMap alone (linemap.rs): LineMap::new(MapLen), then set_used,           *)
(* set_unused, set_range_used and set_range_unused with any arguments up to   *)
(* len(), as the tests of linemap.rs use them                                 *)

LineInit ==
    /\ blocks = <<>>
    /\ issued = {}
    /\ live = {}
    /\ overflow_checks \in BOOLEAN
    /\ status = "running"
    /\ last = NoCall
    /\ pre_lines = <<>>
    /\ calls = 0
    /\ pc = "none"
    /\ ptrs = <<>>
    /\ test = NoTest
    /\ map = LineMap_new(MapLen)

\* a call on the LineMap under test: its arguments and how it ended
LineCall(op, start, end, panic) ==
    [op |-> op, start |-> start, end |-> end,
     result |-> IF panic # "" THEN "panic" ELSE "unit", err |-> panic]

SetUsed ==
    /\ status = "running"
    /\ \E line \in 0 .. len(map) - 1 :
        /\ map' = set_used(map, line)
        /\ pre_lines' = map
        /\ last' = LineCall("set_used", line, line + 1, "")
        /\ UNCHANGED <<blocks, issued, live, overflow_checks, status, calls, pc, ptrs, test>>

SetUnused ==
    /\ status = "running"
    /\ \E line \in 0 .. len(map) - 1 :
        /\ map' = set_unused(map, line)
        /\ pre_lines' = map
        /\ last' = LineCall("set_unused", line, line + 1, "")
        /\ UNCHANGED <<blocks, issued, live, overflow_checks, status, calls, pc, ptrs, test>>

SetRangeUsed ==
    /\ status = "running"
    /\ \E start \in 0 .. len(map), end \in 0 .. len(map) :
       \E r \in {set_range_used(map, start, end)} :
          /\ map' = r.map
          /\ pre_lines' = map
          /\ last' = LineCall("set_range_used", start, end, r.panic)
          /\ status' = IF r.panic # "" THEN "aborted" ELSE "running"
          /\ UNCHANGED <<blocks, issued, live, overflow_checks, calls, pc, ptrs, test>>

SetRangeUnused ==
    /\ status = "running"
    /\ \E start \in 0 .. len(map), end \in 0 .. len(map) :
       \E r \in {set_range_unused(map, start, end)} :
          /\ map' = r.map
          /\ pre_lines' = map
          /\ last' = LineCall("set_range_unused", start, end, r.panic)
          /\ status' = IF r.panic # "" THEN "aborted" ELSE "running"
          /\ UNCHANGED <<blocks, issued, live, overflow_checks, calls, pc, ptrs, test>>

LineNext == SetUsed \/ SetUnused \/ SetRangeUsed \/ SetRangeUnused

LineSpec == LineInit /\ [][LineNext]_vars

----------------------------------------------------------------------------
(* Properties of LineMap, checked under LineSpec *)

\* the smallest index i >= line with m's line i equal to val, or len() if none
FirstAtOrAfter(m, line, val) ==
    IF \E i \in line .. Len(m) - 1 : m[i + 1] = val
    THEN CHOOSE i \in line .. Len(m) - 1 :
             /\ m[i + 1] = val
             /\ \A j \in line .. i - 1 : m[j + 1] # val
    ELSE Len(m)

\* the map of test::next_unused and test::next_used: 128 lines, every tenth used
EveryTenth == [i \in 1 .. 128 |-> (i - 1) % 10 = 0]

\* C18: for every content of the map and every line in 0..len(),
\* find_next_used(line) is the smallest index >= line of a used line, or len(),
\* and find_next_unused(line) the smallest index >= line of an unused line, or
\* len(); and on the tests' map: find_next_unused(0) = 1, find_next_used(1) = 10,
\* and find_next_unused(126) = 128 once lines 126 and 127 are used.
C18_FindNext ==
    /\ \A line \in 0 .. len(map) :
           /\ find_next_used(map, line) = FirstAtOrAfter(map, line, TRUE)
           /\ find_next_unused(map, line) = FirstAtOrAfter(map, line, FALSE)
    /\ find_next_unused(EveryTenth, 0) = 1
    /\ find_next_used(EveryTenth, 1) = 10
    /\ find_next_unused(set_used(set_used(EveryTenth, 127), 126), 126) = 128

\* C18 witness: line 0 used, line 1 unused, a used line further on and the last
\* two lines used, so that the scans stop at a line, run on, and reach len()
C18_Witness ==
    /\ is_used(map, 0)
    /\ find_next_unused(map, 0) = 1
    /\ find_next_used(map, 1) \in 3 .. len(map) - 3
    /\ find_next_unused(map, len(map) - 2) = len(map)
    /\ find_next_used(map, len(map)) = len(map)

\* C24: for 0 <= start <= end <= len(), set_range_used(start, end) panics,
\* the map left as it was, if a line of [start, end) is already used, and
\* otherwise marks exactly the lines of [start, end) used; set_range_unused
\* does the same with used and unused exchanged.
C24_SetRange ==
    (/\ last.op \in {"set_range_used", "set_range_unused"}
     /\ last.start <= last.end)
    => IF \E l \in last.start .. last.end - 1 :
              pre_lines[l + 1] = (last.op = "set_range_used")
       THEN /\ last.result = "panic"
            /\ status = "aborted"
            /\ map = pre_lines
       ELSE /\ last.result = "unit"
            /\ status = "running"
            /\ \A l \in 0 .. len(map) - 1 :
                   map[l + 1] = IF l \in last.start .. last.end - 1
                                THEN last.op = "set_range_used"
                                ELSE pre_lines[l + 1]

\* C24 witness: set_range_unused has panicked on a range that held a used and
\* an unused line, and both are as they were
C24_Witness ==
    /\ last.op = "set_range_unused"
    /\ last.result = "panic"
    /\ status = "aborted"
    /\ \E l, k \in last.start .. last.end - 1 : map[l + 1] /\ ~map[k + 1]
    /\ map = pre_lines

----------------------------------------------------------------------------
(* Properties of Block::new, checked under MemSpec *)

\* the powers of two up to 2^MaxBlockSize
PowersOfTwo == {2 ^ k : k \in 0 .. MaxBlockSize}

\* C12: Block::new(size) returns Err(BadAlignment) iff size is not a power of
\* two, and then the operating allocator has not been asked; for a power of two
\* it returns Ok (the region the operating allocator gave, of `size` bytes) iff
\* the operating allocator returned non-null, and Err(OutOfMemory) otherwise.
C12_BlockNewResult ==
    last.op = "Block_new" =>
        /\ last.err = "BadAlignment" <=> last.size \notin PowersOfTwo
        /\ last.size \notin PowersOfTwo => ~last.asked
        /\ last.size \in PowersOfTwo =>
               /\ last.asked
               /\ last.err = "" <=> last.os # NULL
               /\ last.err = "" => last.block = [ptr |-> last.os, size |-> last.size]
               /\ last.err # "" => last.err = "OutOfMemory"

\* C12 witness: with a Block alive, Block::new was refused a size that is not a
\* power of two, and the operating allocator was not asked
C12_Witness ==
    /\ last.op = "Block_new"
    /\ last.size = MaxBlockSize
    /\ last.err = "BadAlignment"
    /\ ~last.asked
    /\ Len(blocks) >= 1

----------------------------------------------------------------------------
(* Properties of a single BumpBlock, checked under BlockSpec *)

\* a call was made in this step
Called == calls' = calls + 1

\* line offset of a pointer inside block b
offset_of(b, ptr) == ptr.addr - b.mem.ptr

\* C1: after every inner_alloc / inner_dealloc that returns, cursor <= limit <=
\* LINES_PER_BLOCK and every line in [cursor, limit) is unused.
C1_CursorLimitInvariant ==
    status = "running" =>
        \A i \in 1 .. Len(blocks) :
            /\ blocks[i].cursor <= blocks[i].limit
            /\ blocks[i].limit <= LINES_PER_BLOCK
            /\ \A l \in blocks[i].cursor .. blocks[i].limit - 1 :
                   ~is_used(blocks[i].used_lines, l)

\* C2: inner_alloc(n), n > 0, never panics: it returns Some or None.
C2_InnerAllocNeverFatal ==
    last.op = "inner_alloc" => last.result \in {"Some", "None"}

\* C4: inner_dealloc of a pointer at offset o, size s, whose lines are all used
\* marks exactly [o, o + s) unused and changes no other line.
C4_DeallocFreesExactRange ==
    (/\ last.op = "inner_dealloc"
     /\ \A l \in offset_of(blocks[1], last.ptr) ..
                  offset_of(blocks[1], last.ptr) + last.ptr.size - 1 :
            is_used(pre_lines, l))
    => /\ last.result = "unit"
       /\ blocks[1].used_lines =
              write_range(pre_lines, offset_of(blocks[1], last.ptr),
                          offset_of(blocks[1], last.ptr) + last.ptr.size, FALSE)

\* C5: inner_alloc(n) = Some(ptr) followed at once by inner_dealloc(ptr) restores
\* the LineMap the allocation found.
C5_AllocDeallocRoundTrip ==
    [][(/\ last.op = "inner_alloc"
        /\ last.result = "Some"
        /\ last'.op = "inner_dealloc"
        /\ last'.ptr = last.ptr
        /\ calls' = calls + 1)
       => /\ last'.result = "unit"
          /\ blocks'[1].used_lines = pre_lines]_vars

\* C11: inner_dealloc(ptr) panics whenever a line of ptr's range [o, o + s) is
\* already unused; in particular the second of two inner_dealloc calls on the
\* same pointer, with no call in between, panics and is never a silent no-op.
C11_DeallocOfUnusedFatal ==
    [][(/\ Called
        /\ last'.op = "inner_dealloc"
        /\ \/ \E l \in offset_of(blocks[1], last'.ptr) ..
                        offset_of(blocks[1], last'.ptr) + last'.ptr.size - 1 :
                  ~is_used(blocks[1].used_lines, l)
           \/ (last.op = "inner_dealloc" /\ last.ptr = last'.ptr))
       => last'.result = "panic"]_vars

\* the lines of block b that are used
UsedSet(b) == {l \in 0 .. Len(b.used_lines) - 1 : is_used(b.used_lines, l)}

\* C14: get_block_state() is Free iff every line is unused, Unavailable iff
\* every line is used and Recyclable in every other case; a fresh block is Free.
C14_BlockStateClassification ==
    \A i \in 1 .. Len(blocks) :
        /\ get_block_state(blocks[i]) = "Free" <=> UsedSet(blocks[i]) = {}
        /\ get_block_state(blocks[i]) = "Unavailable"
               <=> UsedSet(blocks[i]) = 0 .. LINES_PER_BLOCK - 1
        /\ get_block_state(blocks[i]) = "Recyclable"
               <=> (UsedSet(blocks[i]) # {} /\ UsedSet(blocks[i]) # 0 .. LINES_PER_BLOCK - 1)
        /\ calls = 0 => get_block_state(blocks[i]) = "Free"

\* C14 witness: a block that was full is Recyclable after an inner_dealloc
C14_Witness ==
    /\ last.op = "inner_dealloc"
    /\ last.result = "unit"
    /\ entire_block_used(pre_lines)
    /\ get_block_state(blocks[1]) = "Recyclable"

\* the lines of a pointer of block b
LinesOf(b, ptr) == offset_of(b, ptr) .. offset_of(b, ptr) + ptr.size - 1

\* C15: the ranges inner_alloc has returned since the last inner_dealloc are
\* pairwise disjoint, and an inner_alloc that enters with cursor # limit (no
\* hole search) never moves the cursor back: it advances it by the request when
\* it returns Some and leaves it alone when it returns None.
C15_MonotoneWithinHole ==
    [][Called =>
       /\ \A i, j \in 1 .. Len(ptrs') :
              i # j => LinesOf(blocks'[1], ptrs'[i]) \cap LinesOf(blocks'[1], ptrs'[j]) = {}
       /\ (last'.op = "inner_alloc" /\ blocks[1].cursor # blocks[1].limit) =>
              /\ blocks'[1].cursor >= blocks[1].cursor
              /\ last'.result = "Some" => blocks'[1].cursor = blocks[1].cursor + last'.bytes
              /\ last'.result = "None" => blocks'[1].cursor = blocks[1].cursor]_vars

\* C15 witness: after an inner_dealloc, three allocations in a row have
\* succeeded and the cursor stands at the end of the last one
C15_Witness ==
    /\ last.op = "inner_alloc"
    /\ last.result = "Some"
    /\ Len(ptrs) = 3
    /\ issued # {ptrs[i] : i \in 1 .. Len(ptrs)}
    /\ blocks[1].cursor = offset_of(blocks[1], last.ptr) + last.bytes

\* C17: inner_dealloc of a pointer the block issued leaves cursor and limit as
\* they were.
C17_DeallocKeepsCursorLimit ==
    [][(/\ Called
        /\ last'.op = "inner_dealloc"
        /\ last'.ptr \in issued)
       => /\ blocks'[1].cursor = blocks[1].cursor
          /\ blocks'[1].limit = blocks[1].limit]_vars

\* C17 witness (test::dealloc_bytes): with cursor = limit = LINES_PER_BLOCK on a
\* full block, an inner_dealloc has freed lines and cursor and limit still stand
\* at LINES_PER_BLOCK
C17_Witness ==
    /\ last.op = "inner_dealloc"
    /\ last.result = "unit"
    /\ entire_block_used(pre_lines)
    /\ UsedSet(blocks[1]) # 0 .. LINES_PER_BLOCK - 1
    /\ blocks[1].cursor = LINES_PER_BLOCK
    /\ blocks[1].limit = LINES_PER_BLOCK

\* C19: an inner_alloc that enters with cursor < limit (no hole search) and
\* returns Some returns a range inside [cursor, limit) as they stood when the
\* call began: a line at or beyond limit, freed since the last hole search, is
\* not handed out.
C19_AllocStaysBelowLimit ==
    [][(/\ Called
        /\ last'.op = "inner_alloc"
        /\ last'.result = "Some"
        /\ blocks[1].cursor < blocks[1].limit)
       => LinesOf(blocks[1], last'.ptr) \subseteq blocks[1].cursor .. blocks[1].limit - 1]_vars

\* the cursor an inner_alloc on b works with: the start of the first hole when
\* it enters with cursor = limit, the cursor of b otherwise
WorkCursor(b) ==
    IF b.cursor = b.limit THEN find_next_unused(b.used_lines, 0) ELSE b.cursor

\* the limit that goes with it
WorkLimit(b) ==
    IF b.cursor = b.limit THEN find_next_used(b.used_lines, WorkCursor(b)) ELSE b.limit

\* C22: inner_alloc(n) that enters with cursor = limit returns None, changing
\* nothing, if every line is used, and else sets cursor = find_next_unused(0),
\* limit = find_next_used(cursor); then, with a = find_next_used(cursor) - cursor:
\* if a >= n it marks exactly [cursor, cursor + n) used, returns the pointer at
\* offset cursor of size n and advances cursor by n; if a < n it returns None.
C22_InnerAllocAlgorithm ==
    [][(Called /\ last'.op = "inner_alloc") =>
       IF blocks[1].cursor = blocks[1].limit /\ UsedSet(blocks[1]) = 0 .. LINES_PER_BLOCK - 1
       THEN last'.result = "None" /\ blocks' = blocks
       ELSE IF find_next_used(blocks[1].used_lines, WorkCursor(blocks[1]))
                  - WorkCursor(blocks[1]) >= last'.bytes
       THEN /\ last'.result = "Some"
            /\ last'.ptr = [addr |-> blocks[1].mem.ptr + WorkCursor(blocks[1]),
                            size |-> last'.bytes]
            /\ UsedSet(blocks'[1]) = UsedSet(blocks[1]) \cup
                   (WorkCursor(blocks[1]) .. WorkCursor(blocks[1]) + last'.bytes - 1)
            /\ blocks'[1].cursor = WorkCursor(blocks[1]) + last'.bytes
            /\ blocks'[1].limit = WorkLimit(blocks[1])
       ELSE /\ last'.result = "None"
            /\ UsedSet(blocks'[1]) = UsedSet(blocks[1])
            /\ blocks'[1].cursor = WorkCursor(blocks[1])
            /\ blocks'[1].limit = WorkLimit(blocks[1])]_vars

\* C23: an inner_alloc that returns None leaves the LineMap as it was, and
\* changes cursor or limit only if it entered with cursor = limit; entered with
\* cursor < limit it leaves both as they were.
C23_FailedAllocFrame ==
    [][(Called /\ last'.op = "inner_alloc" /\ last'.result = "None") =>
       /\ blocks'[1].used_lines = blocks[1].used_lines
       /\ blocks[1].cursor < blocks[1].limit => blocks'[1] = blocks[1]
       /\ blocks'[1] # blocks[1] => blocks[1].cursor = blocks[1].limit]_vars

\* C23 witness (test::allocate_bytes): after one line and two lines, a request
\* of two lines has failed with cursor = 3 and limit = 4
C23_Witness ==
    /\ last.op = "inner_alloc"
    /\ last.result = "None"
    /\ last.bytes = 2
    /\ calls = 3
    /\ blocks[1].cursor = 3
    /\ blocks[1].limit = 4
    /\ UsedSet(blocks[1]) = 0 .. 2

\* C26 (LiveSpec): when every pointer is given back at most once, the ranges of
\* the pointers issued and not given back are pairwise disjoint, lie inside
\* [0, LINES_PER_BLOCK), and all their lines are used; and the range inner_alloc
\* returns is disjoint from the range of every pointer that is live.
C26_LiveRangesDisjointUsed ==
    [][Called =>
       /\ \A p \in live' :
              /\ LinesOf(blocks'[1], p) \subseteq 0 .. LINES_PER_BLOCK - 1
              /\ LinesOf(blocks'[1], p) \subseteq UsedSet(blocks'[1])
              /\ \A q \in live' \ {p} :
                     LinesOf(blocks'[1], p) \cap LinesOf(blocks'[1], q) = {}
       /\ last'.result = "Some" =>
              \A q \in live : LinesOf(blocks[1], last'.ptr) \cap LinesOf(blocks[1], q) = {}]_vars

\* C26 witness: a pointer given back and a range issued again since, three
\* pointers are live and fill the block
C26_Witness ==
    /\ last.op = "inner_alloc"
    /\ last.result = "Some"
    /\ Cardinality(live) = 3
    /\ issued # live
    /\ UNION {LinesOf(blocks[1], p) : p \in live} = 0 .. LINES_PER_BLOCK - 1

----------------------------------------------------------------------------
(* Properties of a BlockList *)

\* the index of the block whose lines hold ptr's address
Issuer(bs, ptr) ==
    CHOOSE i \in 1 .. Len(bs) :
        ptr.addr - bs[i].mem.ptr \in 0 .. LINES_PER_BLOCK - 1

\* ptr's address lies in the memory of no block
InNoBlock(bs, ptr) ==
    \A i \in 1 .. Len(bs) :
        ptr.addr < bs[i].mem.ptr \/ ptr.addr >= bs[i].mem.ptr + bs[i].mem.size

\* C3 (DeepSpec): BlockList::alloc(n), 0 < n <= LINES_PER_BLOCK, returns Ok(ptr)
\* with ptr.size = n unless the operating allocator refuses a block; it never aborts.
C3_ListAllocSucceeds ==
    (/\ last.op = "alloc"
     /\ last.bytes \in 1 .. LINES_PER_BLOCK
     /\ last.err # "OutOfMemory")
    => /\ last.result = "Ok"
       /\ last.ptr.size = last.bytes

\* C9 (Spec): BlockList::dealloc of a pointer issued by block i goes to block i
\* and changes nothing but block i's LineMap: every other block, block i's
\* cursor, limit and memory, and the number and order of blocks stay as they were.
C9_DeallocOwnershipScoped ==
    [][(/\ Called
        /\ last'.op = "dealloc"
        /\ last'.ptr \in issued)
       => LET i == Issuer(blocks, last'.ptr) IN
          /\ last'.block = i
          /\ Len(blocks') = Len(blocks)
          /\ \A j \in 1 .. Len(blocks) : j # i => blocks'[j] = blocks[j]
          /\ blocks'[i] = [blocks[i] EXCEPT !.used_lines = blocks'[i].used_lines]]_vars

\* C9 witness: a pointer of the second of two blocks was deallocated, its first
\* line is unused now, and the first block still holds used lines
C9_Witness ==
    /\ last.op = "dealloc"
    /\ last.result = "unit"
    /\ Len(blocks) >= 2
    /\ last.block = 2
    /\ ~is_used(blocks[2].used_lines, offset_of(blocks[2], last.ptr))
    /\ \E l \in 0 .. LINES_PER_BLOCK - 1 : is_used(blocks[1].used_lines, l)

\* inner_alloc(bytes) returns None on every block of bs
NoBlockFits(bs, bytes) ==
    \A i \in 1 .. Len(bs) :
        /\ inner_alloc(bs[i], bytes).panic = ""
        /\ inner_alloc(bs[i], bytes).ptr = NoPtr

\* C13 (Spec): when inner_alloc returns None on every block of the list and no
\* new block can be created (the operating allocator is not asked, or returns
\* null), BlockList::alloc returns Err(OutOfMemory) or Err(BadAlignment) as a
\* value: the program goes on, the list holds as many blocks as before and
\* every LineMap is as it was.
C13_AllocErrorIsValue ==
    [][(/\ Called
        /\ last'.op = "alloc"
        /\ NoBlockFits(blocks, last'.bytes)
        /\ ~(last'.asked /\ last'.os # NULL))
       => /\ last'.result = "Err"
          /\ last'.err \in {"OutOfMemory", "BadAlignment"}
          /\ last'.ptr = NoPtr
          /\ status' = "running"
          /\ Len(blocks') = Len(blocks)
          /\ \A i \in 1 .. Len(blocks) : blocks'[i].used_lines = blocks[i].used_lines]_vars

\* C13 witness: a list of two blocks, the first one full, has returned
\* Err(OutOfMemory) and goes on
C13_Witness ==
    /\ last.op = "alloc"
    /\ last.result = "Err"
    /\ last.err = "OutOfMemory"
    /\ last.asked
    /\ status = "running"
    /\ Len(blocks) = 2
    /\ entire_block_used(blocks[1].used_lines)

\* C16 as claimed (Spec): BlockList::alloc(n), n > LINES_PER_BLOCK, aborts.
C16_TooLargeAborts ==
    [][(/\ Called
        /\ last'.op = "alloc"
        /\ last'.bytes > LINES_PER_BLOCK)
       => /\ last'.result = "panic"
          /\ status' = "aborted"]_vars

\* C16 amended (Spec): BlockList::alloc(n), n > LINES_PER_BLOCK, never returns
\* Ok. It returns Err(OutOfMemory), the list unchanged in length, only when the
\* operating allocator was asked for the fresh block and refused it; and when
\* every existing block returns None and the operating allocator gives a
\* region, it aborts ("Object too large to allocate") with exactly one block
\* appended, fresh and empty.
C16_TooLargeNeverOk ==
    [][(/\ Called
        /\ last'.op = "alloc"
        /\ last'.bytes > LINES_PER_BLOCK)
       => /\ last'.result \in {"panic", "Err"}
          /\ last'.ptr = NoPtr
          /\ last'.result = "Err" =>
                 /\ last'.err = "OutOfMemory"
                 /\ last'.asked /\ last'.os = NULL
                 /\ Len(blocks') = Len(blocks)
                 /\ status' = "running"
          /\ (NoBlockFits(blocks, last'.bytes) /\ last'.asked /\ last'.os # NULL) =>
                 /\ last'.result = "panic"
                 /\ last'.err = "Object too large to allocate"
                 /\ status' = "aborted"
                 /\ Len(blocks') = Len(blocks) + 1
                 /\ blocks'[Len(blocks')] = BumpBlock_new(last'.os).block
          /\ NoBlockFits(blocks, last'.bytes) => last'.asked]_vars

\* C16 witness: a list whose only block holds used lines has aborted on a
\* request of more than LINES_PER_BLOCK lines, a second, empty block appended
C16_Witness ==
    /\ last.op = "alloc"
    /\ last.bytes > LINES_PER_BLOCK
    /\ last.result = "panic"
    /\ last.err = "Object too large to allocate"
    /\ status = "aborted"
    /\ Len(blocks) = 2
    /\ UsedSet(blocks[1]) # {}
    /\ UsedSet(blocks[2]) = {}

\* inner_alloc(bytes) returns Some on block k of bs and None on every block before it
FirstFit(bs, k, bytes) ==
    /\ inner_alloc(bs[k], bytes).ptr # NoPtr
    /\ NoBlockFits(SubSeq(bs, 1, k - 1), bytes)

\* C20 (Spec): BlockList::alloc returns the pointer of the first block, in list
\* order, whose inner_alloc returns Some: the blocks before it have been tried,
\* the blocks after it are untouched and no block is appended. A call appends at
\* most one block, and only when inner_alloc returned None on every existing
\* block; the new block then holds the outcome of exactly one inner_alloc on a
\* fresh block.
C20_ListOrderFirstFit ==
    [][(Called /\ last'.op = "alloc") =>
       /\ \A k \in 1 .. Len(blocks) :
              FirstFit(blocks, k, last'.bytes) =>
                  /\ last'.result = "Ok"
                  /\ last'.block = k
                  /\ last'.ptr = inner_alloc(blocks[k], last'.bytes).ptr
                  /\ Len(blocks') = Len(blocks)
                  /\ ~last'.asked
                  /\ \A j \in 1 .. Len(blocks) :
                         blocks'[j] = IF j > k THEN blocks[j]
                                      ELSE inner_alloc(blocks[j], last'.bytes).block
       /\ Len(blocks') \in {Len(blocks), Len(blocks) + 1}
       /\ last'.asked => NoBlockFits(blocks, last'.bytes)
       /\ Len(blocks') = Len(blocks) + 1 =>
              /\ NoBlockFits(blocks, last'.bytes)
              /\ last'.asked /\ last'.os # NULL
              /\ last'.block = Len(blocks')
              /\ blocks'[Len(blocks')] =
                     inner_alloc(BumpBlock_new(last'.os).block, last'.bytes).block
              /\ last'.ptr = inner_alloc(BumpBlock_new(last'.os).block, last'.bytes).ptr
              /\ \A j \in 1 .. Len(blocks) :
                     blocks'[j] = inner_alloc(blocks[j], last'.bytes).block]_vars

\* C20 witness: of three blocks the first is full, the second has served the
\* request, and the third has room for it as well
C20_Witness ==
    /\ last.op = "alloc"
    /\ last.result = "Ok"
    /\ Len(blocks) = 3
    /\ last.block = 2
    /\ entire_block_used(blocks[1].used_lines)
    /\ find_next_used(blocks[3].used_lines, blocks[3].cursor) - blocks[3].cursor >= last.bytes

\* C21 (Spec): no BlockList::alloc or BlockList::dealloc call removes or moves a
\* block: the number of blocks never decreases, dealloc leaves it as it was,
\* and the block at index i (its memory region) is still at index i afterwards.
C21_BlocksNeverRemoved ==
    [][Called =>
       /\ Len(blocks') >= Len(blocks)
       /\ last'.op = "dealloc" => Len(blocks') = Len(blocks)
       /\ \A i \in 1 .. Len(blocks) : blocks'[i].mem = blocks[i].mem]_vars

\* C21 witness: a dealloc has left the first of two blocks without a used line,
\* and the list still holds both
C21_Witness ==
    /\ last.op = "dealloc"
    /\ last.result = "unit"
    /\ last.block = 1
    /\ Len(blocks) = 2
    /\ UsedSet(blocks[1]) = {}
    /\ UsedSet(blocks[2]) # {}

\* C25 (Spec): the blocks of the list are in address order: block i starts
\* below block j for all i < j.
C25_AddressOrder ==
    \A i, j \in 1 .. Len(blocks) :
        i < j => blocks[i].mem.ptr < blocks[j].mem.ptr

\* C10 (Spec): BlockList::dealloc of a pointer whose address lies in no block of
\* the list aborts ("ManagedPtr is not owned by the BlockList!"), and no block
\* has been changed when it does.
C10_ForeignDeallocFatal ==
    [][(/\ Called
        /\ last'.op = "dealloc"
        /\ InNoBlock(blocks, last'.ptr))
       => /\ last'.result = "panic"
          /\ last'.err = "ManagedPtr is not owned by the BlockList!"
          /\ status' = "aborted"
          /\ blocks' = blocks]_vars

\* C10 witness: a list that holds two blocks, one with used lines, has aborted
\* on a pointer it does not own
C10_Witness ==
    /\ last.op = "dealloc"
    /\ status = "aborted"
    /\ last.err = "ManagedPtr is not owned by the BlockList!"
    /\ Len(blocks) = 2
    /\ InNoBlock(blocks, last.ptr)
    /\ \E l \in 0 .. LINES_PER_BLOCK - 1 : is_used(blocks[1].used_lines, l)

----------------------------------------------------------------------------
(* Properties of test::alloc_dealloc_blocks, checked under TestSpec *)

\* the first round: its allocations, up to the first deallocation
InRound1 == pc = "alloc1" \/ (pc = "dealloc" /\ Len(ptrs) = test.count)

CeilDiv(a, b) == (a + b - 1) \div b

\* C6: with one-line requests on an empty list, every allocation of the first
\* round succeeds unless the operating allocator refuses a block, k allocations
\* leave ceil(k / LINES_PER_BLOCK) blocks, and the i-th pointer (0-based) is
\* contained in block floor(i / LINES_PER_BLOCK).
C6_FirstFitAcrossBlocks ==
    (test.bytes = 1 /\ InRound1)
    => /\ status = "aborted" => last.err = "OutOfMemory"
       /\ Len(blocks) = CeilDiv(Len(ptrs), LINES_PER_BLOCK)
       /\ \A i \in 0 .. Len(ptrs) - 1 :
              contains(blocks[(i \div LINES_PER_BLOCK) + 1], ptrs[i + 1])

\* C6 witness: the test's own case, ten one-line allocations in three blocks
C6_Witness ==
    /\ test.bytes = 1
    /\ test.count = 10
    /\ pc = "dealloc"
    /\ Len(ptrs) = 10
    /\ Len(blocks) = 3
    /\ status = "running"

\* C7: after k one-line allocations, the deallocation of all k pointers and k
\* more one-line allocations, the list holds as many blocks as after the
\* first round.
C7_FreedSpaceReused ==
    (test.bytes = 1 /\ pc = "done") => Len(blocks) = test.blocks1

\* number of used lines in all blocks
RECURSIVE UsedLines(_)
UsedLines(bs) ==
    IF bs = <<>> THEN 0
    ELSE Cardinality({l \in 0 .. LINES_PER_BLOCK - 1 : is_used(Head(bs).used_lines, l)})
         + UsedLines(Tail(bs))

\* C8: alloc(LINE_SIZE_BYTES) succeeds (unless the operating allocator refuses
\* a block) and reserves exactly one line, so four such calls fill one block.
C8_RequestInBytes ==
    (/\ test.bytes = LINE_SIZE_BYTES
     /\ InRound1
     /\ last.op = "alloc"
     /\ last.err # "OutOfMemory")
    => /\ last.result = "Ok"
       /\ UsedLines(blocks) = Len(ptrs)
       /\ Len(blocks) = CeilDiv(Len(ptrs), LINES_PER_BLOCK)

====
